---- MODULE Spec2Model ----
(***************************************************************************)
(* M5 hierarchical forecasting pipeline: the feature engine                *)
(* (src/src/feature_engineering.py), the train/test split                  *)
(* (src/src/data_loader.py), the per-horizon trainer and predictor         *)
(* (src/src/model.py) and the driver (src/scripts/train_hierarchical_lgbm.py)*)
(*                                                                         *)
(* A data frame is a record [columns, rows]: columns is the sequence of    *)
(* column names, rows the sequence of rows in frame order.  A column name  *)
(* is the sequence of its "_"-separated tokens ("store_id" is              *)
(* <<"store","id">>).  Numbers are exact rationals <<num, den>>, den > 0,  *)
(* in lowest terms; NaN is <<0, 0>>.                                       *)
(***************************************************************************)
EXTENDS Integers, Sequences, FiniteSets, TLC

VARIABLES
    cfg,        \* the configuration read by the driver (Config properties)
    panel,      \* the panel object returned by load_data (the caller's frame)
    data,       \* the frame returned by create_all_features
    train_df,   \* train part of the split, after the driver's dropna
    test_df,    \* test part of the split
    models,     \* HierarchicalLGBM.models: horizon -> fitted booster
    h_cur,      \* loop variable h of train / predict
    test_days,  \* predict: the first num_models sorted distinct test dates
    pred_list,  \* predict: the accumulated (id, h, forecast) rows
    runs,       \* number of calls of models[h].predict made so far
    canon,      \* the id column of data/raw/sales_train_evaluation.csv
    pivot,      \* the frame returned by predict
    err,        \* the exception that ended the run, "" when none
    pc,         \* position of the driver
    train_calls,    \* number of calls of train made on the trainer
    forecast_array, \* M5Evaluator.evaluate: the array handed to wrmsse
    score,          \* the score evaluate returned
    disk,           \* the persisted artifacts: forecasts.pkl and summary.pkl
    predictor,      \* the M5Predictor of the API module
    resp            \* the last response of the API, or outcome of its startup

vars == <<cfg, panel, data, train_df, test_df, models, h_cur,
          test_days, pred_list, runs, canon, pivot, err, pc,
          train_calls, forecast_array, score, disk, predictor, resp>>

\* what the evaluation and saving steps of the scripts write
outputs == <<forecast_array, score, disk>>

\* the state of the serving process
serving == <<predictor, resp>>

----------------------------------------------------------------------------
(* Bounds of the model. *)

NumSeries == 3
NumDays == 6
MaxH == 2
MaxTestHorizon == 2
MaxTrainCalls == 2
MaxSplitDays == 4
MaxSplitHorizon == 3

----------------------------------------------------------------------------
(* Exact arithmetic on the values held in float columns. *)

NaN == <<0, 0>>

IsNaN(x) == x[2] = 0

Abs(n) == IF n < 0 THEN -n ELSE n

RECURSIVE GCD(_, _)
GCD(a, b) == IF b = 0 THEN a ELSE GCD(b, a % b)

Rat(n, d) == LET g == GCD(Abs(n), d) IN <<n \div g, d \div g>>

Num(n) == <<n, 1>>

RatAdd(a, b) == Rat(a[1] * b[2] + b[1] * a[2], a[2] * b[2])

RECURSIVE RatSum(_)
RatSum(s) == IF s = <<>> THEN Num(0) ELSE RatAdd(s[1], RatSum(Tail(s)))

\* arithmetic mean of a non-empty sequence of numbers
Mean(s) == LET t == RatSum(s) IN Rat(t[1], t[2] * Len(s))

\* str(k) of a small non-negative integer, as in an f-string
ToStr(k) == <<"0", "1", "2", "3", "4", "5", "6", "7", "8", "9">>[k + 1]

\* selection of the elements of s at the positions satisfying Keep
RECURSIVE SelectIdx(_, _)
SelectIdx(s, keep) ==
    IF s = <<>> THEN <<>>
    ELSE LET n == Len(s)
             front == SelectIdx(SubSeq(s, 1, n - 1), keep)
         IN IF n \in keep THEN Append(front, s[n]) ELSE front

Range(s) == {s[i] : i \in DOMAIN s}

\* the sequence s with all its elements computed
Seq1(s) == s \o <<>>

RECURSIVE Flatten(_)
Flatten(ss) == IF ss = <<>> THEN <<>> ELSE ss[1] \o Flatten(Tail(ss))

\* lexicographic order on equal-length integer tuples
LexLess(a, b) ==
    \E i \in DOMAIN a : a[i] < b[i] /\ \A j \in 1..(i - 1) : a[j] = b[j]

\* the stable ascending sort of positions by key: result[i] is the position
\* of the i-th smallest key
SortPerm(keys) ==
    LET n == Len(keys)
        rank == Seq1([j \in 1..n |-> 1 + Cardinality({m \in 1..n :
                        LexLess(keys[m], keys[j]) \/ (keys[m] = keys[j] /\ m < j)})])
    IN Seq1([i \in 1..n |-> CHOOSE j \in 1..n : rank[j] = i])

----------------------------------------------------------------------------
(* The raw tables: ids of the sales table, the product/store hierarchy and *)
(* the calendar.  A row is [k, f]: k holds the integer and categorical     *)
(* columns, f the float columns, both keyed by column name.                *)

Ids == 1..NumSeries
Days == 1..NumDays

ItemOf(id) == ((id - 1) % 2) + 1
StoreOf(id) == ((id - 1) \div 2) + 1
WdayOf(d) == ((d - 1) % 7) + 1

\* the raw sales tables considered, and the numbers of leading days on which
\* the price of series 1 is missing
Seeds == {1}
MissChoices == {0, 2}

\* unit sales of series id on day d in the raw sales table number seed
SalesOf(seed, id, d) == (seed + id * d * d + 2 * id + 3 * d) % 7

cId == <<"id">>
cDate == <<"date">>
cSales == <<"sales">>
cStore == <<"store", "id">>

\* the columns load_data keeps, in its order
BaseColumns ==
    << cId, <<"item", "id">>, <<"dept", "id">>, <<"cat", "id">>, cStore,
       <<"state", "id">>, cDate, cSales, <<"sell", "price">>, <<"wday">>,
       <<"month">>, <<"year">>, <<"snap">> >>

\* the row of the panel for series id on day d; the price of series 1 is
\* missing on the first `miss` days (item not yet on sale), that of series 2
\* on the last `miss` days (item no longer on sale)
PanelRow(seed, miss, id, d) ==
    [k |-> (cId :> id) @@ (<<"item", "id">> :> ItemOf(id)) @@ (<<"dept", "id">> :> 1)
           @@ (<<"cat", "id">> :> 1) @@ (cStore :> StoreOf(id)) @@ (<<"state", "id">> :> 1)
           @@ (cDate :> d) @@ (<<"wday">> :> WdayOf(d)) @@ (<<"month">> :> 1)
           @@ (<<"year">> :> 2016) @@ (<<"snap">> :> 0),
     f |-> (cSales :> Num(SalesOf(seed, id, d)))
           @@ (<<"sell", "price">> :>
                 IF (id = 1 /\ d <= miss) \/ (id = 2 /\ d > NumDays - miss)
                 THEN NaN ELSE Num(id))]

\* the (id, date) pairs of the panel in one of the row orders considered:
\* "melt" is the order melt produces (day by day, ids in table order),
\* "reverse" is that order backwards
RowOrders == {"melt", "reverse"}

PairsInOrder(o) ==
    LET all == [i \in 1..(NumSeries * NumDays) |->
                    <<((i - 1) % NumSeries) + 1, ((i - 1) \div NumSeries) + 1>>]
        n == Len(all)
    IN CASE o = "melt" -> all
         [] o = "reverse" -> [i \in 1..n |-> all[n + 1 - i]]

MakePanel(seed, miss, o) ==
    LET ps == PairsInOrder(o)
    IN [columns |-> BaseColumns,
        rows |-> [i \in DOMAIN ps |-> PanelRow(seed, miss, ps[i][1], ps[i][2])]]

\* data.history_days of the configuration: with the longest test horizon the
\* window of load_data spans the whole raw table, with a shorter one it does
\* not
HistoryDays == NumDays - MaxTestHorizon - 1

\* the day columns _filter_sales_by_date keeps (dates are day numbers):
\* keep_mask = dates >= last_date - Timedelta(history_days + test_horizon)
_filter_sales_by_date(d_cols, history_days, test_horizon) ==
    LET last_date == CHOOSE d \in Range(d_cols) : \A e \in Range(d_cols) : e <= d
    IN SelectIdx(d_cols, {i \in DOMAIN d_cols :
                             d_cols[i] >= last_date - (history_days + test_horizon)})

\* the rows _apply_temporal_filter keeps
_apply_temporal_filter(df, history_days, test_horizon) ==
    LET max_date == CHOOSE d \in {df.rows[i].k[cDate] : i \in DOMAIN df.rows} :
                        \A i \in DOMAIN df.rows : df.rows[i].k[cDate] <= d
        cut_date == max_date - test_horizon
        hist_start == cut_date - history_days
    IN [df EXCEPT !.rows = SelectIdx(df.rows, {i \in DOMAIN df.rows :
            df.rows[i].k[cDate] >= hist_start /\ df.rows[i].k[cDate] <= max_date})]

\* M5DataLoader.load_data on the raw tables (seed, miss) given in order o:
\* day columns filtered, melted and merged, then the final temporal filter
load_data(seed, miss, o, history_days, test_horizon) ==
    LET long == MakePanel(seed, miss, o)
        keep_cols == _filter_sales_by_date([d \in Days |-> d], history_days, test_horizon)
        melted == [long EXCEPT !.rows = SelectIdx(long.rows, {i \in DOMAIN long.rows :
                                 long.rows[i].k[cDate] \in Range(keep_cols)})]
    IN _apply_temporal_filter(melted, history_days, test_horizon)

----------------------------------------------------------------------------
(* Data frame primitives (pandas), as the feature engine uses them. *)

HasColumn(df, c) == c \in Range(df.columns)

\* value of feature column c of row r as a number (integer columns convert)
Val(r, c) == IF c \in DOMAIN r.f THEN r.f[c] ELSE Num(r.k[c])

Key(r, cols) == [i \in 1..Len(cols) |-> r.k[cols[i]]]

\* variant of sort_values that leaves the rows in the order given
sort_values_unsorted(df, cols) == df

\* df.sort_values(cols)
sort_values(df, cols) ==
    LET p == SortPerm(Seq1([i \in DOMAIN df.rows |-> Key(df.rows[i], cols)]))
    IN [df EXCEPT !.rows = Seq1([i \in DOMAIN df.rows |-> df.rows[p[i]]])]

\* df[name] = vals, for a float column
SetFloatColumn(df, name, vals) ==
    [columns |-> IF HasColumn(df, name) THEN df.columns ELSE Append(df.columns, name),
     rows |-> Seq1([i \in DOMAIN df.rows |->
                 [df.rows[i] EXCEPT !.f = (name :> vals[i]) @@ @]])]

\* df[name] = vals, for an integer column
SetIntColumn(df, name, vals) ==
    [columns |-> IF HasColumn(df, name) THEN df.columns ELSE Append(df.columns, name),
     rows |-> Seq1([i \in DOMAIN df.rows |->
                 [df.rows[i] EXCEPT !.k = (name :> vals[i]) @@ @]])]

\* pd.factorize(values)[0]: codes by order of first appearance
factorize(values) ==
    LET first(v) == CHOOSE i \in DOMAIN values :
                        values[i] = v /\ \A j \in 1..(i - 1) : values[j] # v
    IN [i \in DOMAIN values |->
          Cardinality({first(values[j]) : j \in DOMAIN values}
                      \cap 1..(first(values[i]) - 1))]

\* variant of GroupShift that shifts the whole column, across groups
GroupShift_frame(gkeys, vals, n) ==
    Seq1([i \in DOMAIN vals |-> IF i > n THEN vals[i - n] ELSE NaN])

\* df.groupby(cols, sort=False)[col].shift(n): the value n rows earlier among
\* the rows of the same group, in frame order; NaN when there is none
GroupShift(gkeys, vals, n) ==
    Seq1([i \in DOMAIN vals |->
        LET prior == {j \in 1..(i - 1) : gkeys[j] = gkeys[i]}
        IN IF n = 0 THEN vals[i]
           ELSE IF Cardinality(prior) < n THEN NaN
           ELSE vals[CHOOSE j \in prior : Cardinality({m \in prior : m > j}) = n - 1]])

\* series.rolling(w).mean(): over the w rows ending at each row of the whole
\* column, NaN unless all w exist and none is NaN (min_periods = w)
RollingMean(col, w) ==
    Seq1([i \in DOMAIN col |->
        IF i < w \/ \E j \in (i - w + 1)..i : IsNaN(col[j]) THEN NaN
        ELSE Mean([j \in 1..w |-> col[i - w + j]])])

----------------------------------------------------------------------------
(* FeatureEngineer (src/src/feature_engineering.py). *)

\* the hierarchy levels that configurations are built from
LvlId == [groupby |-> <<cId>>, prefix |-> <<"id">>]
LvlStore == [groupby |-> <<cStore>>, prefix |-> <<"st">>]
LvlItem == [groupby |-> << <<"item", "id">> >>, prefix |-> <<"it">>]
\* a level whose prefix is also the first token of its grouping column
LvlStoreSame == [groupby |-> <<cStore>>, prefix |-> <<"store">>]
\* a level whose prefix is the name of the sales column
LvlSales == [groupby |-> <<cStore>>, prefix |-> <<"sales">>]

LevelChoices ==
    { <<LvlId>>, <<LvlStore>>, <<LvlId, LvlStore>>, <<LvlItem, LvlId>>,
      <<LvlId, LvlStoreSame>>, <<LvlSales, LvlId>> }

\* c.startswith(f"{prefix}_")
StartsWith(c, prefix) ==
    Len(c) > Len(prefix) /\ SubSeq(c, 1, Len(prefix)) = prefix

LagName(prefix, lag) == prefix \o <<"lag", ToStr(lag)>>
RollName(prefix, window) == prefix \o <<"roll", ToStr(window)>>

_encode_categorical(df) ==
    LET enc(d, col) ==
            IF HasColumn(d, col)
            THEN SetIntColumn(d, col \o <<"enc">>,
                              factorize([i \in DOMAIN d.rows |-> d.rows[i].k[col]]))
            ELSE d
    IN enc(enc(enc(enc(df, <<"state", "id">>), cStore), <<"dept", "id">>),
           <<"item", "id">>)

_create_date_features(df) ==
    SetIntColumn(df, <<"is", "weekend">>,
                 [i \in DOMAIN df.rows |->
                    IF df.rows[i].k[<<"wday">>] \in {1, 7} THEN 1 ELSE 0])

\* variant of _create_aggregated_sales that keeps one row per row of df
_create_aggregated_sales_perRow(df, groupby_cols, prefix) ==
    LET keycols == groupby_cols \o <<cDate>>
    IN [columns |-> keycols \o << <<"sales">> \o prefix >>,
        rows |-> Seq1([i \in DOMAIN df.rows |->
                    [k |-> [c \in Range(keycols) |-> df.rows[i].k[c]],
                     f |-> (<<"sales">> \o prefix) :> df.rows[i].f[cSales]]])]

\* df.groupby(groupby_cols + ["date"], as_index=False)["sales"].mean()
\*   .rename(columns={"sales": f"sales_{prefix}"})
_create_aggregated_sales(df, groupby_cols, prefix) ==
    LET keycols == groupby_cols \o <<cDate>>
        keys == Seq1([i \in DOMAIN df.rows |-> Key(df.rows[i], keycols)])
        firsts == {i \in DOMAIN keys : \A j \in 1..(i - 1) : keys[j] # keys[i]}
        distinct == SelectIdx(keys, firsts)
        p == SortPerm(distinct)
        members(key) == SelectIdx(df.rows, {i \in DOMAIN keys : keys[i] = key})
        aggrow(key) ==
            [k |-> [c \in Range(keycols) |->
                      key[CHOOSE i \in DOMAIN keycols : keycols[i] = c]],
             f |-> (<<"sales">> \o prefix) :>
                      Mean([i \in DOMAIN members(key) |-> members(key)[i].f[cSales]])]
    IN [columns |-> keycols \o << <<"sales">> \o prefix >>,
        rows |-> Seq1([i \in DOMAIN distinct |-> aggrow(distinct[p[i]])])]

RECURSIVE SetFloatColumns(_, _)
SetFloatColumns(df, cols) ==
    IF cols = <<>> THEN df
    ELSE SetFloatColumns(SetFloatColumn(df, cols[1].name, cols[1].vals), Tail(cols))

_add_lag_rolling_features(df, groupby_cols, value_col, prefix) ==
    LET s == sort_values(df, groupby_cols \o <<cDate>>)
        gk == Seq1([i \in DOMAIN s.rows |-> Key(s.rows[i], groupby_cols)])
        v == Seq1([i \in DOMAIN s.rows |-> s.rows[i].f[value_col]])
        lagcols == [j \in DOMAIN cfg.lags |->
                      [name |-> LagName(prefix, cfg.lags[j]),
                       vals |-> GroupShift(gk, v, cfg.lags[j])]]
        rollcols == [j \in DOMAIN cfg.rolling_windows |->
                      [name |-> RollName(prefix, cfg.rolling_windows[j]),
                       vals |-> RollingMean(GroupShift(gk, v, 1), cfg.rolling_windows[j])]]
    IN SetFloatColumns(s, lagcols \o rollcols)

\* df.merge(right, on=on, how="left"), for a right frame whose other columns
\* are float columns that df does not have
merge_left(df, right, on) ==
    LET newcols == SelectIdx(right.columns,
                             {i \in DOMAIN right.columns : right.columns[i] \notin Range(on)})
        matches(r) == SelectIdx(right.rows,
                        {i \in DOMAIN right.rows : Key(right.rows[i], on) = Key(r, on)})
        joined(r) ==
            IF matches(r) = <<>>
            THEN << [r EXCEPT !.f = [c \in Range(newcols) |-> NaN] @@ @] >>
            ELSE [i \in DOMAIN matches(r) |->
                    [r EXCEPT !.f = [c \in Range(newcols) |-> matches(r)[i].f[c]] @@ @]]
    IN [columns |-> df.columns \o newcols,
        rows |-> Flatten(Seq1([i \in DOMAIN df.rows |-> joined(df.rows[i])]))]

\* one iteration of the loop over hierarchical_levels: [ok, df]
LevelStep(df, level) ==
    IF level.groupby = <<cId>>
    THEN [ok |-> TRUE,
          df |-> _add_lag_rolling_features(df, level.groupby, cSales, level.prefix)]
    ELSE LET agg0 == _create_aggregated_sales(df, level.groupby, level.prefix)
             agg_df == _add_lag_rolling_features(agg0, level.groupby,
                                                 <<"sales">> \o level.prefix, level.prefix)
             on == level.groupby \o <<cDate>>
             keep_cols == on \o SelectIdx(agg_df.columns,
                             {i \in DOMAIN agg_df.columns :
                                 StartsWith(agg_df.columns[i], level.prefix)})
             unique(c) == Cardinality({i \in DOMAIN keep_cols : keep_cols[i] = c}) = 1
         IN IF \E i \in DOMAIN on : ~unique(on[i])
            THEN [ok |-> FALSE, df |-> df]   \* merge: "label is not unique"
            ELSE [ok |-> TRUE,
                  df |-> merge_left(df, [agg_df EXCEPT !.columns = keep_cols], on)]

RECURSIVE _create_hierarchical_features(_, _)
_create_hierarchical_features(df, hierarchical_levels) ==
    IF hierarchical_levels = <<>> THEN [ok |-> TRUE, df |-> df]
    ELSE LET r == LevelStep(df, hierarchical_levels[1])
         IN IF r.ok THEN _create_hierarchical_features(r.df, Tail(hierarchical_levels))
            ELSE r

create_all_features(df, hierarchical_levels) ==
    _create_hierarchical_features(_create_date_features(_encode_categorical(df)),
                                  hierarchical_levels)

base_feats ==
    << <<"wday">>, <<"month">>, <<"year">>, <<"is", "weekend">>, <<"snap">>,
       <<"sell", "price">>, <<"state", "id", "enc">>, <<"store", "id", "enc">>,
       <<"dept", "id", "enc">>, <<"item", "id", "enc">> >>

\* variant of get_feature_names that leaves out the rolling features
get_feature_names_noRoll(hierarchical_levels) ==
    base_feats \o Flatten([i \in DOMAIN hierarchical_levels |->
                    [j \in DOMAIN cfg.lags |->
                        LagName(hierarchical_levels[i].prefix, cfg.lags[j])]])

get_feature_names(hierarchical_levels) ==
    LET lag_feats == Flatten([i \in DOMAIN hierarchical_levels |->
                        [j \in DOMAIN cfg.lags |->
                            LagName(hierarchical_levels[i].prefix, cfg.lags[j])]])
        roll_feats == Flatten([i \in DOMAIN hierarchical_levels |->
                        [j \in DOMAIN cfg.rolling_windows |->
                            RollName(hierarchical_levels[i].prefix, cfg.rolling_windows[j])]])
    IN base_feats \o lag_feats \o roll_feats

----------------------------------------------------------------------------
(* M5DataLoader.split_train_test, DataFrame.dropna, the LightGBM booster. *)

MaxDate(df) ==
    CHOOSE d \in {df.rows[i].k[cDate] : i \in DOMAIN df.rows} :
        \A i \in DOMAIN df.rows : df.rows[i].k[cDate] <= d

\* df[mask], the mask given as the set of positions it keeps
FilterRows(df, keep) == [df EXCEPT !.rows = SelectIdx(df.rows, keep)]

\* df[df["date"] == day]
OnDay(df, day) == FilterRows(df, {i \in DOMAIN df.rows : df.rows[i].k[cDate] = day})

\* variant of split_train_test that cuts one day later
split_train_test_lateCut(df) ==
    LET cut_date == MaxDate(df) - cfg.test_horizon + 1
    IN [train |-> FilterRows(df, {i \in DOMAIN df.rows : df.rows[i].k[cDate] <= cut_date}),
        test |-> FilterRows(df, {i \in DOMAIN df.rows : df.rows[i].k[cDate] > cut_date})]

\* (train_df, test_df) of split_train_test
split_train_test(df) ==
    LET cut_date == MaxDate(df) - cfg.test_horizon
    IN [train |-> FilterRows(df, {i \in DOMAIN df.rows : df.rows[i].k[cDate] <= cut_date}),
        test |-> FilterRows(df, {i \in DOMAIN df.rows : df.rows[i].k[cDate] > cut_date})]

\* df.dropna(subset=subset)
dropna(df, subset) ==
    FilterRows(df, {i \in DOMAIN df.rows :
                        \A j \in DOMAIN subset : ~IsNaN(Val(df.rows[i], subset[j]))})

\* "_lag_" in f or "_roll_" in f
IsLagRoll(f) == \E i \in 2..(Len(f) - 1) : f[i] \in {"lag", "roll"}

\* the scoring functions of the boosters lgb.train may return: the raw score
\* of a feature row x is b + w * (the sell_price entry of x plus the sum of
\* its entries after the base features)
ModelFamily == {[w |-> 1, b |-> -1], [w |-> -1, b |-> 1]}

\* variant of lgb_train that fits a booster on an empty dataset too
lgb_train_noRaise(X) == {[w |-> m.w, b |-> m.b, Xh |-> X] : m \in ModelFamily}

\* lgb.train(train_set=lgb.Dataset(X, y)): the boosters it may return for the
\* rows Xh, each holding the rows it was fitted on; none for an empty dataset
lgb_train(X) ==
    IF X.rows = <<>> THEN {}
    ELSE {[w |-> m.w, b |-> m.b, Xh |-> X] : m \in ModelFamily}

RawScore(m, x) ==
    LET price == CHOOSE j \in DOMAIN base_feats : base_feats[j] = <<"sell", "price">>
        t == RatSum(<<x[price]>> \o SubSeq(x, Len(base_feats) + 1, Len(x)))
    IN RatAdd(Num(m.b), Rat(m.w * t[1], t[2]))

\* variant of clip0 that lets negative scores through
clip0_none(x) == x

\* np.clip(x, 0, None)
clip0(x) == IF x[1] < 0 THEN Num(0) ELSE x

\* x.fillna(0), one value
fillna0(x) == IF IsNaN(x) THEN Num(0) ELSE x

\* the copy of train_df with the lag/rolling columns shifted by h per series
\* (model.py:60-64); the columns are shifted one after the other
RECURSIVE ShiftColumns(_, _, _)
ShiftColumns(df, cols, h) ==
    IF cols = <<>> THEN df
    ELSE LET ids == [i \in DOMAIN df.rows |-> Key(df.rows[i], <<cId>>)]
             col == [i \in DOMAIN df.rows |-> df.rows[i].f[cols[1]]]
         IN ShiftColumns(SetFloatColumn(df, cols[1], GroupShift(ids, col, h)),
                         Tail(cols), h)

\* variant of HorizonFrame that shifts by h - 1 rows
HorizonFrame_oneLess(df, feature_names, h) ==
    LET lag_roll_feats == SelectIdx(feature_names,
                              {i \in DOMAIN feature_names : IsLagRoll(feature_names[i])})
    IN dropna(ShiftColumns(df, lag_roll_feats, h - 1), feature_names)

HorizonFrame(df, feature_names, h) ==
    LET lag_roll_feats == SelectIdx(feature_names,
                              {i \in DOMAIN feature_names : IsLagRoll(feature_names[i])})
    IN dropna(ShiftColumns(df, lag_roll_feats, h), feature_names)

\* Xtest[feature_names].fillna(0).values
FeatureMatrix(df, feature_names) ==
    [i \in DOMAIN df.rows |->
        [j \in DOMAIN feature_names |-> fillna0(Val(df.rows[i], feature_names[j]))]]

\* variant of SortedDates that keeps the dates in their order of appearance
SortedDates_asFound(df) ==
    LET ds == [i \in DOMAIN df.rows |-> df.rows[i].k[cDate]]
    IN SelectIdx(ds, {i \in DOMAIN ds : \A j \in 1..(i - 1) : ds[j] # ds[i]})

\* sorted(test_df["date"].unique())
SortedDates(df) ==
    LET ds == {df.rows[i].k[cDate] : i \in DOMAIN df.rows}
    IN [i \in 1..Cardinality(ds) |->
          CHOOSE d \in ds : Cardinality({e \in ds : e < d}) = i - 1]

FName(i) == <<"F1", "F2", "F3", "F4", "F5", "F6", "F7", "F8", "F9">>[i]

\* variant of PivotReindex that keeps the pivot's own index, the sorted
\* predicted ids
PivotReindex_ownIndex(pred_all, ids, n) ==
    LET own == SortedDates([rows |-> [i \in DOMAIN pred_all |->
                                         [k |-> (cDate :> pred_all[i].id)]]])
        cell(id, h) == pred_all[CHOOSE i \in DOMAIN pred_all :
                                   pred_all[i].id = id /\ pred_all[i].h = h].forecast
    IN [columns |-> [j \in 1..n |-> FName(j)],
        index |-> own,
        values |-> [i \in DOMAIN own |-> [j \in 1..n |-> cell(own[i], j)]]]

\* pred_all.pivot(index="id", columns="h", values="forecast")
\*   .reindex(sales["id"].tolist()).fillna(0), columns renamed F1..F<num_models>
PivotReindex(pred_all, ids, n) ==
    LET hs == SortedDates([rows |-> [i \in DOMAIN pred_all |->
                                        [k |-> (cDate :> pred_all[i].h)]]])
        cell(id, h) ==
            IF \E i \in DOMAIN pred_all : pred_all[i].id = id /\ pred_all[i].h = h
            THEN pred_all[CHOOSE i \in DOMAIN pred_all :
                              pred_all[i].id = id /\ pred_all[i].h = h].forecast
            ELSE NaN
    IN [columns |-> [j \in 1..n |-> FName(j)],
        index |-> ids,
        values |-> [i \in DOMAIN ids |-> [j \in DOMAIN hs |-> fillna0(cell(ids[i], hs[j]))]]]

----------------------------------------------------------------------------
(* The driver: scripts/train_hierarchical_lgbm.py main, with the loops of  *)
(* HierarchicalLGBM.train and HierarchicalLGBM.predict taken one iteration *)
(* at a time.                                                              *)

EmptyFrame == [columns |-> <<>>, rows |-> <<>>]

\* an optional value (None or a value) is the sequence <<>> or <<value>>;
\* nothing has been written to the output directory
NoArtifacts == [forecasts |-> <<>>, summary |-> <<>>]

\* M5Predictor.__init__
M5Predictor_init == [forecasts_df |-> <<>>, summary |-> <<>>, model_loaded |-> FALSE]

\* no request has been answered
NoResponse == [endpoint |-> "", status |-> 0, detail |-> "", data |-> <<>>]

\* features.lags and features.rolling_windows of the configurations considered
FeatConfigs ==
    { [lags |-> <<1>>, rolling_windows |-> <<1>>],
      [lags |-> <<1>>, rolling_windows |-> <<2>>],
      [lags |-> <<2, 1>>, rolling_windows |-> <<>>],
      [lags |-> <<3>>, rolling_windows |-> <<>>] }

\* id columns of data/raw/sales_train_evaluation.csv considered: the table the
\* panel was built from, and a table in another order that lacks id 1 and
\* holds an id the panel does not have
CanonChoices ==
    { [i \in 1..NumSeries |-> i], [i \in 1..NumSeries |-> NumSeries + 2 - i] }

\* model.training.num_boost_round of the configuration
NumBoostRound == 200

FeatureNames == get_feature_names(cfg.hierarchical_levels)

Init ==
    /\ \E fc \in FeatConfigs, lv \in LevelChoices,
          H \in 1..MaxH, th \in 1..MaxTestHorizon :
          cfg = [lags |-> fc.lags, rolling_windows |-> fc.rolling_windows,
                 hierarchical_levels |-> lv, num_models |-> H, test_horizon |-> th,
                 history_days |-> HistoryDays, num_boost_round |-> NumBoostRound]
    /\ \E seed \in Seeds, miss \in MissChoices, o \in RowOrders :
          panel = load_data(seed, miss, o, cfg.history_days, cfg.test_horizon)
    /\ canon \in CanonChoices
    /\ data = EmptyFrame
    /\ train_df = EmptyFrame
    /\ test_df = EmptyFrame
    /\ models = <<>>
    /\ h_cur = 0
    /\ test_days = <<>>
    /\ pred_list = <<>>
    /\ runs = 0
    /\ pivot = [columns |-> <<>>, index |-> <<>>, values |-> <<>>]
    /\ err = ""
    /\ pc = "start"
    /\ train_calls = 0
    /\ forecast_array = <<>>
    /\ score = NaN
    /\ disk = NoArtifacts
    /\ predictor = M5Predictor_init
    /\ resp = NoResponse

\* STEP 2: data = fe.create_all_features(data, config.hierarchical_levels)
CreateAllFeatures ==
    /\ pc = "start"
    /\ LET r == create_all_features(panel, cfg.hierarchical_levels)
       IN /\ panel' = _create_date_features(_encode_categorical(panel))
          /\ IF r.ok
             THEN data' = r.df /\ pc' = "featured" /\ err' = err
             ELSE data' = data /\ pc' = "failed" /\ err' = "ValueError"
    /\ UNCHANGED <<cfg, train_df, test_df, models, h_cur, test_days,
                   pred_list, runs, canon, pivot, train_calls, outputs, serving>>

\* STEP 3: split, dropna on the train part, construction of the trainer
SplitTrainTest ==
    /\ pc = "featured"
    /\ LET sp == split_train_test(data)
       IN /\ train_df' = dropna(sp.train, FeatureNames)
          /\ test_df' = sp.test
    /\ models' = <<>>
    /\ train_calls' = 1
    /\ h_cur' = 1
    /\ pc' = "train"
    /\ UNCHANGED <<cfg, panel, data, test_days, pred_list, runs, canon,
                   pivot, err, outputs, serving>>

\* variant of StoreModel that keeps only the model just fitted
StoreModel_only(ms, h, m) == (h :> m)

\* self.models[h] = m
StoreModel(ms, h, m) == (h :> m) @@ ms

\* one iteration of the loop of HierarchicalLGBM.train (model.py:58-86); the
\* scripts go on to predict after their one call of train
TrainHorizon ==
    /\ pc = "train"
    /\ LET X == HorizonFrame(train_df, FeatureNames, h_cur)
       IN IF lgb_train(X) = {}
          THEN \* lgb.train raises, the assignment to models[h] is not made
               /\ err' = "LightGBMError"
               /\ pc' = "failed"
               /\ UNCHANGED <<models, h_cur>>
          ELSE /\ \E m \in lgb_train(X) : models' = StoreModel(models, h_cur, m)
               /\ h_cur' = IF h_cur = cfg.num_models THEN h_cur ELSE h_cur + 1
               /\ pc' = IF h_cur # cfg.num_models THEN "train"
                        ELSE IF train_calls = 1 THEN "trained" ELSE "retrained"
               /\ err' = err
    /\ UNCHANGED <<cfg, panel, data, train_df, test_df, test_days, pred_list,
                   runs, canon, pivot, train_calls, outputs, serving>>

\* the frames a later call of train may be given: the same training frame or
\* the frame without the rows of its last date
RetrainFrames(df) ==
    {df, FilterRows(df, {i \in DOMAIN df.rows : df.rows[i].k[cDate] # MaxDate(df)})}

\* a caller other than the scripts calls train(train_df, feature_names) once
\* more on the trained HierarchicalLGBM: train starts its loop again and does
\* not touch self.models before it (model.py:52-58)
TrainAgain ==
    /\ pc \in {"trained", "retrained"}
    /\ train_calls < MaxTrainCalls
    /\ train_calls' = train_calls + 1
    /\ train_df' \in RetrainFrames(train_df)
    /\ h_cur' = 1
    /\ pc' = "train"
    /\ UNCHANGED <<cfg, panel, data, test_df, models, test_days,
                   pred_list, runs, canon, pivot, err, outputs, serving>>

\* variant of EnoughDays that never fails
EnoughDays_off(days, n) == TRUE

\* assert len(test_days) >= self.num_models
EnoughDays(days, n) == Len(days) >= n

\* days[:n]
Take(days, n) == SubSeq(days, 1, IF n < Len(days) THEN n ELSE Len(days))

\* HierarchicalLGBM.predict up to its loop (model.py:109-116)
PredictStart ==
    /\ pc = "trained"
    /\ LET days == SortedDates(test_df)
       IN IF EnoughDays(days, cfg.num_models)
          THEN /\ test_days' = Take(days, cfg.num_models)
               /\ h_cur' = 1
               /\ pc' = "predicting"
               /\ err' = err
          ELSE /\ test_days' = test_days
               /\ h_cur' = h_cur
               /\ pc' = "failed"
               /\ err' = "AssertionError"
    /\ pred_list' = <<>>
    /\ UNCHANGED <<cfg, panel, data, train_df, test_df, models, runs,
                   canon, pivot, train_calls, outputs, serving>>

\* the rows one iteration of the loop of predict appends (model.py:118-128)
HorizonOutput(h) ==
    LET Xtest == OnDay(test_df, test_days[h])
        Xmat == FeatureMatrix(Xtest, FeatureNames)
    IN [i \in DOMAIN Xtest.rows |->
          [id |-> Xtest.rows[i].k[cId], h |-> h,
           forecast |-> clip0(RawScore(models[h], Xmat[i]))]]

PredictHorizon ==
    /\ pc = "predicting"
    /\ pred_list' = pred_list \o HorizonOutput(h_cur)
    /\ runs' = runs + 1
    /\ h_cur' = IF h_cur = Len(test_days) THEN h_cur ELSE h_cur + 1
    /\ pc' = IF h_cur = Len(test_days) THEN "pivoting" ELSE "predicting"
    /\ UNCHANGED <<cfg, panel, data, train_df, test_df, models, test_days,
                   canon, pivot, err, train_calls, outputs, serving>>

\* the end of predict (model.py:130-145)
PredictPivot ==
    /\ pc = "pivoting"
    /\ IF Cardinality({pred_list[i].h : i \in DOMAIN pred_list}) = cfg.num_models
       THEN /\ pivot' = PivotReindex(pred_list, canon, cfg.num_models)
            /\ pc' = "done"
            /\ err' = err
       ELSE \* pivot.columns = [...]: length mismatch
            /\ pivot' = pivot
            /\ pc' = "failed"
            /\ err' = "ValueError"
    /\ UNCHANGED <<cfg, panel, data, train_df, test_df, models, h_cur,
                   test_days, pred_list, runs, canon, train_calls, outputs, serving>>

----------------------------------------------------------------------------
(* M5Evaluator (src/src/evaluation.py) and the saving steps of the two     *)
(* training scripts, which are the same program up to their summary record. *)

\* the distinct elements of s in the order of their first appearance
Distinct(s) == SelectIdx(s, {i \in DOMAIN s : \A j \in 1..(i - 1) : s[j] # s[i]})

\* sales["id"].tolist() of the raw sales table the panel was melted from:
\* melt keeps the table order of the ids within every day
SalesIds(df) == Distinct([i \in DOMAIN df.rows |-> df.rows[i].k[cId]])

\* variant of EvalArray that takes the values of the forecast as they come
EvalArray_asGiven(forecast_df, sales_ids) == forecast_df.values

\* forecast_df.reindex(self.sales_ids).fillna(0).values, for a forecast whose
\* index holds no id twice
EvalArray(forecast_df, sales_ids) ==
    Seq1([i \in DOMAIN sales_ids |->
        IF \E q \in DOMAIN forecast_df.index : forecast_df.index[q] = sales_ids[i]
        THEN LET q == CHOOSE x \in DOMAIN forecast_df.index :
                          forecast_df.index[x] = sales_ids[i]
             IN Seq1([j \in DOMAIN forecast_df.columns |-> fillna0(forecast_df.values[q][j])])
        ELSE Seq1([j \in DOMAIN forecast_df.columns |-> Num(0)])])

\* wrmsse(forecast_array) of the package m5_wrmsse, which scores row i of the
\* array as the forecast of the i-th series of the competition: here the sum
\* of the entries, those of row i weighted by i
wrmsse(a) ==
    RatSum(Flatten(Seq1([i \in DOMAIN a |->
        Seq1([j \in DOMAIN a[i] |-> Rat(i * a[i][j][1], a[i][j][2])])])))

\* the wall-clock training times considered, in seconds
TrainingTimes == {2}

\* the summary train_hierarchical_lgbm.py pickles
summary_debug(sc, c) ==
    ("wrmsse" :> sc) @@ ("history_days" :> c.history_days) @@ ("lags" :> c.lags)
    @@ ("rolls" :> c.rolling_windows) @@ ("rounds" :> c.num_boost_round)

\* the summary train_hierarchical_lgbm_mlflow.py pickles
summary_mlflow(sc, c, training_time, feature_names) ==
    ("wrmsse" :> sc) @@ ("history_days" :> c.history_days) @@ ("lags" :> c.lags)
    @@ ("rolling_windows" :> c.rolling_windows)
    @@ ("num_boost_round" :> c.num_boost_round)
    @@ ("training_time" :> training_time) @@ ("num_features" :> Len(feature_names))

\* STEP 5 of the scripts: evaluator = M5Evaluator(sales); evaluate(forecast_df)
Evaluate ==
    /\ pc = "done"
    /\ forecast_array' = EvalArray(pivot, SalesIds(panel))
    /\ score' = wrmsse(forecast_array')
    /\ pc' = "evaluated"
    /\ UNCHANGED <<cfg, panel, data, train_df, test_df, models, h_cur, test_days,
                   pred_list, runs, canon, pivot, err, train_calls, disk, serving>>

\* forecast_df.to_pickle(forecast_path)
SaveForecasts ==
    /\ pc = "evaluated"
    /\ disk' = [disk EXCEPT !.forecasts = <<pivot>>]
    /\ pc' = "forecast_saved"
    /\ UNCHANGED <<cfg, panel, data, train_df, test_df, models, h_cur, test_days,
                   pred_list, runs, canon, pivot, err, train_calls,
                   forecast_array, score, serving>>

\* train_hierarchical_lgbm.py:108-115
SaveSummary ==
    /\ pc = "forecast_saved"
    /\ disk' = [disk EXCEPT !.summary = <<summary_debug(score, cfg)>>]
    /\ pc' = "saved"
    /\ UNCHANGED <<cfg, panel, data, train_df, test_df, models, h_cur, test_days,
                   pred_list, runs, canon, pivot, err, train_calls,
                   forecast_array, score, serving>>

\* train_hierarchical_lgbm_mlflow.py:136-148
SaveSummaryMlflow ==
    /\ pc = "forecast_saved"
    /\ \E training_time \in TrainingTimes :
          disk' = [disk EXCEPT !.summary =
                      <<summary_mlflow(score, cfg, training_time, FeatureNames)>>]
    /\ pc' = "saved"
    /\ UNCHANGED <<cfg, panel, data, train_df, test_df, models, h_cur, test_days,
                   pred_list, runs, canon, pivot, err, train_calls,
                   forecast_array, score, serving>>

----------------------------------------------------------------------------
(* The serving layer: M5Predictor (src/api/predictor.py) and the endpoints *)
(* of src/api/main.py.  A method returns [ok, error, value]: ok is FALSE    *)
(* when it raises, error is then the message of the exception.             *)

\* M5Predictor.load_model on the artifacts d: [ok, predictor]; the forecasts
\* are read and assigned before the summary is opened
load_model(p, d) ==
    IF d.forecasts = <<>> THEN [ok |-> FALSE, predictor |-> p]
    ELSE IF d.summary = <<>>
         THEN [ok |-> FALSE, predictor |-> [p EXCEPT !.forecasts_df = d.forecasts]]
         ELSE [ok |-> TRUE,
               predictor |-> [forecasts_df |-> d.forecasts, summary |-> d.summary,
                              model_loaded |-> TRUE]]

NotLoadedMsg == "Model not loaded. Call load_model() first."

\* variant of NotLoaded with the guard left out
NotLoaded_never(p) == FALSE

\* if not self.model_loaded
NotLoaded(p) == ~p.model_loaded

\* the length of the list predict returns for an id it does not know
ForecastLen == 28

\* M5Predictor.predict(item_ids): one entry per distinct requested id
M5Predictor_predict(p, item_ids) ==
    IF NotLoaded(p) THEN [ok |-> FALSE, error |-> NotLoadedMsg, value |-> <<>>]
    ELSE IF p.forecasts_df = <<>>   \* None has no attribute index
    THEN [ok |-> FALSE, error |-> "AttributeError", value |-> <<>>]
    ELSE LET fdf == p.forecasts_df[1]
             ids == Distinct(item_ids)
             forecast(id) ==
                 IF \E q \in DOMAIN fdf.index : fdf.index[q] = id
                 THEN fdf.values[CHOOSE q \in DOMAIN fdf.index : fdf.index[q] = id]
                 ELSE [j \in 1..ForecastLen |-> Num(0)]
         IN [ok |-> TRUE, error |-> "",
             value |-> [i \in DOMAIN ids |->
                           [item_id |-> ids[i], forecasts |-> forecast(ids[i])]]]

\* self.summary.get(key): None when the key is missing
Get(summary, key) == IF key \in DOMAIN summary THEN <<summary[key]>> ELSE <<>>

\* M5Predictor.get_model_info
get_model_info(p) ==
    IF NotLoaded(p) THEN [ok |-> FALSE, error |-> NotLoadedMsg, value |-> <<>>]
    ELSE IF p.summary = <<>>   \* None has no attribute get
    THEN [ok |-> FALSE, error |-> "AttributeError", value |-> <<>>]
    ELSE LET sm == p.summary[1]
         IN [ok |-> TRUE, error |-> "",
             value |-> << [wrmsse |-> Get(sm, "wrmsse"),
                           training_time |-> Get(sm, "training_time"),
                           history_days |-> Get(sm, "history_days"),
                           num_boost_round |-> Get(sm, "num_boost_round"),
                           lags |-> Get(sm, "lags"),
                           rolling_windows |-> Get(sm, "rolling_windows")] >>]

\* M5Predictor.get_available_items
get_available_items(p) ==
    IF NotLoaded(p) THEN [ok |-> FALSE, error |-> NotLoadedMsg, value |-> <<>>]
    ELSE IF p.forecasts_df = <<>>
    THEN [ok |-> FALSE, error |-> "AttributeError", value |-> <<>>]
    ELSE [ok |-> TRUE, error |-> "", value |-> p.forecasts_df[1].index]

\* the item_ids of the requests considered: a series id of every sales table
\* with and without an id of none
RequestChoices == { <<2, NumSeries + 2>>, <<NumSeries + 2>> }

\* the default page size of GET /items
DefaultLimit == 100

\* the serving process is followed from the moment the pipeline has ended or
\* has begun to write its artifacts; before, the output directory is as
\* after a failed run
ServingUp == pc \in {"failed", "forecast_saved", "saved"}

\* except Exception as e: raise HTTPException(status_code=500, detail=str(e))
ServiceError(endpoint, detail) ==
    [endpoint |-> endpoint, status |-> 500, detail |-> detail, data |-> <<>>]

Success(endpoint, body) ==
    [endpoint |-> endpoint, status |-> 200, detail |-> "", data |-> body]

\* startup_event, or any other call of predictor.load_model()
LoadModel ==
    /\ ServingUp
    /\ LET r == load_model(predictor, disk)
       IN /\ predictor' = r.predictor
          /\ resp' = [endpoint |-> "startup", status |-> 0,
                      detail |-> IF r.ok THEN "" ELSE "Failed to load model",
                      data |-> <<>>]
    /\ UNCHANGED <<cfg, panel, data, train_df, test_df, models, h_cur, test_days,
                   pred_list, runs, canon, pivot, err, pc, train_calls, outputs>>

\* POST /predict
ApiPredict ==
    /\ ServingUp
    /\ \E item_ids \in RequestChoices :
          LET r == M5Predictor_predict(predictor, item_ids)
          IN resp' = IF r.ok THEN Success("predict", r.value)
                     ELSE ServiceError("predict", r.error)
    /\ UNCHANGED <<cfg, panel, data, train_df, test_df, models, h_cur, test_days,
                   pred_list, runs, canon, pivot, err, pc, train_calls, outputs,
                   predictor>>

\* GET /model/info: the metrics of ModelInfoResponse are Dict[str, float], so
\* a missing score or training time fails its validation
ApiModelInfo ==
    /\ ServingUp
    /\ LET r == get_model_info(predictor)
       IN resp' = IF ~r.ok THEN ServiceError("info", r.error)
                  ELSE IF r.value[1].wrmsse = <<>> \/ r.value[1].training_time = <<>>
                  THEN ServiceError("info", "ValidationError")
                  ELSE Success("info", r.value)
    /\ UNCHANGED <<cfg, panel, data, train_df, test_df, models, h_cur, test_days,
                   pred_list, runs, canon, pivot, err, pc, train_calls, outputs,
                   predictor>>

\* GET /items with its default limit and offset
ApiItems ==
    /\ ServingUp
    /\ LET r == get_available_items(predictor)
       IN resp' = IF r.ok THEN Success("items", Take(r.value, DefaultLimit))
                  ELSE ServiceError("items", r.error)
    /\ UNCHANGED <<cfg, panel, data, train_df, test_df, models, h_cur, test_days,
                   pred_list, runs, canon, pivot, err, pc, train_calls, outputs,
                   predictor>>

Next ==
    \/ CreateAllFeatures
    \/ SplitTrainTest
    \/ TrainHorizon
    \/ TrainAgain
    \/ PredictStart
    \/ PredictHorizon
    \/ PredictPivot
    \/ Evaluate
    \/ SaveForecasts
    \/ SaveSummary
    \/ SaveSummaryMlflow
    \/ LoadModel
    \/ ApiPredict
    \/ ApiModelInfo
    \/ ApiItems

Spec == Init /\ [][Next]_vars

----------------------------------------------------------------------------
(* Properties of the feature engine.  The expected values are read off the *)
(* panel by date, without the sort / shift / merge of the engine.          *)

Featured == pc = "featured"

PanelRows == {panel.rows[i] : i \in DOMAIN panel.rows}

\* the rows of the panel that share the grouping key of row r at the level
GroupRows(level, r) ==
    {q \in PanelRows : Key(q, level.groupby) = Key(r, level.groupby)}

\* the dates present in the history of the group of r
GroupDates(level, r) == {q.k[cDate] : q \in GroupRows(level, r)}

RECURSIVE SumOfSales(_)
SumOfSales(rows) ==
    IF rows = {} THEN Num(0)
    ELSE LET q == CHOOSE x \in rows : TRUE
         IN RatAdd(q.f[cSales], SumOfSales(rows \ {q}))

\* the source signal of the level for the group of r on date d: the series'
\* own sales at the bottom level, else the mean of sales over the group
Source(level, r, d) ==
    LET rs == {q \in GroupRows(level, r) : q.k[cDate] = d}
        t == SumOfSales(rs)
    IN Rat(t[1], t[2] * Cardinality(rs))

RECURSIVE SumOfSource(_, _, _)
SumOfSource(level, r, ds) ==
    IF ds = {} THEN Num(0)
    ELSE LET d == CHOOSE x \in ds : TRUE
         IN RatAdd(Source(level, r, d), SumOfSource(level, r, ds \ {d}))

Levels == {cfg.hierarchical_levels[i] : i \in DOMAIN cfg.hierarchical_levels}
Lags == {cfg.lags[i] : i \in DOMAIN cfg.lags}
Windows == {cfg.rolling_windows[i] : i \in DOMAIN cfg.rolling_windows}

\* C1: for every level, lag k and row (s, d) of the returned panel, P_lag_k
\* is the level's source signal of s's group at date d - k when the group has
\* that date, and missing otherwise, whatever the row order of the input.
C1_LagIsSourceAtEarlierDate ==
    Featured =>
        \A i \in DOMAIN data.rows : \A level \in Levels : \A k \in Lags :
            LET r == data.rows[i]
                d == r.k[cDate]
            IN r.f[LagName(level.prefix, k)] =
                  IF d - k \in GroupDates(level, r)
                  THEN Source(level, r, d - k) ELSE NaN

\* a panel given in reverse order, two levels (one aggregate), and a row
\* whose aggregate lag is a proper fraction while another row's is missing
C1_Witness ==
    /\ pc = "featured"
    /\ panel.rows[1].k[cDate] = NumDays
    /\ cfg.hierarchical_levels = <<LvlId, LvlStore>>
    /\ \E i, j \in DOMAIN data.rows : \E k \in Lags :
          /\ data.rows[i].f[LagName(<<"st">>, k)][2] > 1
          /\ ~IsNaN(data.rows[i].f[LagName(<<"id">>, k)])
          /\ IsNaN(data.rows[j].f[LagName(<<"st">>, k)])

\* C2: for every level, window w and row (s, d), P_roll_w is the mean of the
\* w most recent source values of the group at dates strictly before d, and
\* missing when fewer than w exist; the value at d and other groups play no
\* part.
C2_RollIsMeanOfPriorValues ==
    Featured =>
        \A i \in DOMAIN data.rows : \A level \in Levels : \A w \in Windows :
            LET r == data.rows[i]
                prior == {e \in GroupDates(level, r) : e < r.k[cDate]}
                recent == {e \in prior : Cardinality({x \in prior : x > e}) < w}
                t == SumOfSource(level, r, recent)
            IN r.f[RollName(level.prefix, w)] =
                  IF Cardinality(prior) >= w THEN Rat(t[1], t[2] * w) ELSE NaN

\* the first row of a later group in the sorted frame has a missing rolling
\* mean although w rows precede it in the frame, and some row has a value
C2_Witness ==
    /\ pc = "featured"
    /\ LvlId \in Levels
    /\ \E w \in Windows : \E i, j \in DOMAIN data.rows :
          /\ i > w
          /\ data.rows[i].k[cDate] = 1
          /\ IsNaN(data.rows[i].f[RollName(<<"id">>, w)])
          /\ ~IsNaN(data.rows[j].f[RollName(<<"id">>, w)])
          /\ data.rows[j].f[RollName(<<"id">>, w)][1] > 0

----------------------------------------------------------------------------
(* Properties of the trainer's horizon shift. *)

\* position in df of the row of series id dated d
PosOf(df, id, d) ==
    CHOOSE p \in DOMAIN df.rows : df.rows[p].k[cId] = id /\ df.rows[p].k[cDate] = d

\* positions of the rows of the same series before position p, and the one
\* that lies h rows earlier among them (0 when there is none)
EarlierOfSeries(df, p) == {q \in 1..(p - 1) : df.rows[q].k[cId] = df.rows[p].k[cId]}

RowsEarlier(df, p, h) ==
    LET before == EarlierOfSeries(df, p)
    IN IF Cardinality(before) < h THEN 0
       ELSE CHOOSE q \in before : Cardinality({x \in before : x > q}) = h - 1

LagRollFeats == {f \in Range(FeatureNames) : IsLagRoll(f)}

\* the stored horizons whose model was fitted on the present train_df: all
\* of them in the first call of train, the completed ones in a later call
FittedOnTrainDf ==
    {h \in DOMAIN models : train_calls = 1 \/ h < h_cur \/ pc = "retrained"}

\* C3 as stated: every feature column of a row used to fit model h equals
\* that column of train_df for the same series h rows earlier.
C3_AllFeatureColumnsShifted ==
    \A h \in FittedOnTrainDf : \A i \in DOMAIN models[h].Xh.rows :
        LET r == models[h].Xh.rows[i]
            p == PosOf(train_df, r.k[cId], r.k[cDate])
            q == RowsEarlier(train_df, p, h)
        IN q # 0 /\ \A f \in Range(FeatureNames) : Val(r, f) = Val(train_df.rows[q], f)

\* C3 amended: for every row used to fit model h, each lag/rolling feature
\* column equals that column of train_df for the same series h rows earlier
\* (never a value of another series); the other feature columns are the
\* row's own.
C3_LagRollColumnsShifted ==
    \A h \in FittedOnTrainDf : \A i \in DOMAIN models[h].Xh.rows :
        LET r == models[h].Xh.rows[i]
            p == PosOf(train_df, r.k[cId], r.k[cDate])
            q == RowsEarlier(train_df, p, h)
        IN /\ q # 0
           /\ \A f \in LagRollFeats : Val(r, f) = Val(train_df.rows[q], f)
           /\ \A f \in Range(FeatureNames) \ LagRollFeats :
                 Val(r, f) = Val(train_df.rows[p], f)

\* a model of horizon 2 fitted on a row whose shifted lag value differs from
\* the unshifted one and from the value one row earlier
C3_Witness ==
    /\ 2 \in FittedOnTrainDf
    /\ \E i \in DOMAIN models[2].Xh.rows : \E f \in LagRollFeats :
          LET r == models[2].Xh.rows[i]
              p == PosOf(train_df, r.k[cId], r.k[cDate])
          IN /\ Val(r, f) # Val(train_df.rows[p], f)
             /\ Val(r, f) # Val(train_df.rows[RowsEarlier(train_df, p, 1)], f)

----------------------------------------------------------------------------
(* Information available to the predictor. *)

InPredict == pc \in {"predicting", "pivoting", "done"}

\* the panel with every sale dated after day changed
SalesChangedAfter(day) ==
    [panel EXCEPT !.rows = [i \in DOMAIN panel.rows |->
        IF panel.rows[i].k[cDate] > day
        THEN [panel.rows[i] EXCEPT !.f[cSales] = RatAdd(@, Num(1))]
        ELSE panel.rows[i]]]

\* the feature rows predict feeds to model h, when the pipeline runs on panel p
FedToModel(p, h) ==
    LET test == split_train_test(create_all_features(p, cfg.hierarchical_levels).df).test
    IN FeatureMatrix(OnDay(test, test_days[h]), FeatureNames)

\* C4: what predict feeds to model h for the h-th test date is derived only
\* from sales dated at least h days before that date: it is the same when
\* all later sales are different.
C4_NoSalesOfForecastWindow ==
    InPredict =>
        \A h \in DOMAIN test_days :
            FedToModel(SalesChangedAfter(test_days[h] - h), h) = FedToModel(panel, h)

----------------------------------------------------------------------------
(* Feature names and rows of the returned panel. *)

\* the columns of the returned panel that the input panel did not have
NewColumns ==
    SelectIdx(data.columns, {i \in DOMAIN data.columns : data.columns[i] \notin Range(BaseColumns)})

InputFeatureColumns ==
    { <<"wday">>, <<"month">>, <<"year">>, <<"snap">>, <<"sell", "price">> }

\* C5 as stated: get_feature_names(levels) has the length of, and the same
\* names as, the new columns of create_all_features(panel, levels).
C5_NamesAreTheNewColumns ==
    Featured =>
        /\ Len(FeatureNames) = Len(NewColumns)
        /\ Range(FeatureNames) = Range(NewColumns)

\* the aggregate columns sales_P that the merge of a level brought back
MergedAggregates ==
    {c \in Range(NewColumns) : \E l \in Levels : c = <<"sales">> \o l.prefix}

\* C5 amended: get_feature_names(levels) lists, each once, the new columns of
\* create_all_features(panel, levels), less the aggregate column a level
\* with prefix sales brings back, and the five input columns wday, month,
\* year, snap and sell_price.
C5_NamesAreNewAndInputColumns ==
    Featured =>
        /\ Range(FeatureNames) =
              (Range(NewColumns) \ MergedAggregates) \cup InputFeatureColumns
        /\ Len(FeatureNames) = Len(NewColumns) - Cardinality(MergedAggregates)
                                  + Cardinality(InputFeatureColumns)
        /\ Cardinality(Range(FeatureNames)) = Len(FeatureNames)
        /\ Range(NewColumns) \cap InputFeatureColumns = {}
        /\ MergedAggregates \subseteq { <<"sales", "sales">> }
        /\ MergedAggregates # {} <=> LvlSales \in Levels

\* two levels, lags and rolling windows configured, features returned
C5_Witness ==
    /\ pc = "featured"
    /\ Len(cfg.hierarchical_levels) = 2
    /\ cfg.rolling_windows # <<>>
    /\ Len(NewColumns) = 5 + 2 * (Len(cfg.lags) + Len(cfg.rolling_windows))
                           + Cardinality(MergedAggregates)

CountRows(df, id, d) ==
    Cardinality({i \in DOMAIN df.rows : df.rows[i].k[cId] = id /\ df.rows[i].k[cDate] = d})

\* C6: the returned panel holds exactly the multiset of (series, date) rows
\* of the input panel.
C6_SameRows ==
    Featured =>
        /\ Len(data.rows) = Len(panel.rows)
        /\ \A i \in DOMAIN panel.rows :
              LET r == panel.rows[i]
              IN CountRows(data, r.k[cId], r.k[cDate]) = CountRows(panel, r.k[cId], r.k[cDate])

\* an aggregate level whose groups hold two series was merged back
C6_Witness ==
    /\ pc = "featured"
    /\ LvlStore \in Levels
    /\ \E i, j \in DOMAIN data.rows :
          /\ i # j
          /\ Key(data.rows[i], <<cStore, cDate>>) = Key(data.rows[j], <<cStore, cDate>>)
          /\ ~IsNaN(data.rows[i].f[LagName(<<"st">>, cfg.lags[1])])

----------------------------------------------------------------------------
(* Properties of the forecast matrix. *)

TestIds == {test_df.rows[i].k[cId] : i \in DOMAIN test_df.rows}
TestDates == {test_df.rows[i].k[cDate] : i \in DOMAIN test_df.rows}

NoPivot == [columns |-> <<>>, index |-> <<>>, values |-> <<>>]

\* the raw scores model h gives for the rows of the h-th test date
RawScoresOf(h) ==
    LET Xmat == FeatureMatrix(OnDay(test_df, test_days[h]), FeatureNames)
    IN {RawScore(models[h], Xmat[i]) : i \in DOMAIN Xmat}

\* C7: every value of the matrix predict returns is a number >= 0.
C7_ForecastsNonNegative ==
    pc = "done" =>
        \A i \in DOMAIN pivot.values : \A j \in DOMAIN pivot.values[i] :
            ~IsNaN(pivot.values[i][j]) /\ pivot.values[i][j][1] >= 0

\* predict returned although a model gave a negative raw score and a
\* canonical id had no test row
C7_Witness ==
    /\ pc = "done"
    /\ \E h \in DOMAIN test_days : \E x \in RawScoresOf(h) : x[1] < 0
    /\ \E i \in DOMAIN canon : canon[i] \notin TestIds
    /\ \E i \in DOMAIN pivot.values : \E j \in DOMAIN pivot.values[i] :
          pivot.values[i][j][1] > 0

\* C8: the returned matrix has one row per canonical id in the canonical
\* order and the columns F1..FH; the row of an id without test rows is all
\* 0, the row of a predicted id holds its forecasts by horizon, and no other
\* id appears.
C8_CanonicalIndexAndColumns ==
    pc = "done" =>
        /\ pivot.index = canon
        /\ Len(pivot.values) = Len(canon)
        /\ Len(pivot.columns) = cfg.num_models
        /\ \A j \in 1..cfg.num_models : pivot.columns[j] = <<"F1", "F2", "F3", "F4">>[j]
        /\ \A i \in DOMAIN canon :
              /\ Len(pivot.values[i]) = cfg.num_models
              /\ \A h \in 1..cfg.num_models :
                    IF canon[i] \in TestIds
                    THEN \E n \in DOMAIN pred_list :
                            /\ pred_list[n].id = canon[i]
                            /\ pred_list[n].h = h
                            /\ pivot.values[i][h] = pred_list[n].forecast
                    ELSE pivot.values[i][h] = Num(0)

\* the canonical list is in another order than the predicted ids, lacks a
\* predicted id and holds an unknown one; two horizons with differing values
C8_Witness ==
    /\ pc = "done"
    /\ cfg.num_models = 2
    /\ canon[1] \notin TestIds
    /\ \E id \in TestIds : id \notin Range(canon)
    /\ \E i \in DOMAIN pivot.values : pivot.values[i][1] # pivot.values[i][2]

----------------------------------------------------------------------------
(* Failures of predict and train. *)

\* predict has been called
PredictCalled ==
    \/ pc \in {"predicting", "pivoting", "done"}
    \/ pc = "failed" /\ train_calls = 1 /\ DOMAIN models = 1..cfg.num_models

TrainReached(h) ==
    CASE pc \in {"start", "featured"} -> FALSE
      [] pc = "train" -> h < h_cur
      [] pc = "failed" -> h_cur >= 1 /\ h <= h_cur
      [] OTHER -> TRUE

NoTrainingRow(h) == HorizonFrame(train_df, FeatureNames, h).rows = <<>>

\* C10: when no training row remains for a horizon h, train fails with
\* InsufficientDataError and stores no model for h.
C10_InsufficientDataError ==
    \A h \in 1..cfg.num_models :
        TrainReached(h) /\ NoTrainingRow(h) =>
            /\ pc = "failed"
            /\ err = "InsufficientDataError"
            /\ h \notin DOMAIN models

\* C11: when the fit of horizon h raises (no training row is left for h),
\* the run ends there with LightGBM's error: the models this call of train
\* stored are those of the horizons before h (a model left for h or a later
\* horizon was fitted by an earlier call on another frame), no horizon model
\* is ever run, and no forecast matrix, score or artifact is produced.
C11_FailedHorizonAbortsRun ==
    \A h \in 1..cfg.num_models :
        TrainReached(h) /\ NoTrainingRow(h) =>
            /\ pc = "failed"
            /\ err = "LightGBMError"
            /\ h_cur = h
            /\ train_calls = 1 => DOMAIN models = 1..(h - 1)
            /\ \A k \in DOMAIN models \ 1..(h - 1) :
                  models[k].Xh # HorizonFrame(train_df, FeatureNames, k)
            /\ runs = 0
            /\ pred_list = <<>>
            /\ pivot = NoPivot
            /\ forecast_array = <<>>
            /\ score = NaN
            /\ disk = NoArtifacts

\* the fit of horizon 1 of 2 failed on a train panel that holds rows
C11_Witness ==
    /\ pc = "failed"
    /\ err = "LightGBMError"
    /\ h_cur = 1
    /\ cfg.num_models = 2
    /\ train_df.rows # <<>>

----------------------------------------------------------------------------
(* Properties of the evaluator and of the loader. *)

Evaluated == pc \in {"evaluated", "forecast_saved", "saved"}

\* the permutations of 1..n
Perms(n) == {f \in [1..n -> 1..n] : \A i, j \in 1..n : f[i] = f[j] => i = j}

\* the forecast with its rows in the order f
PermuteRows(fdf, f) ==
    [fdf EXCEPT !.index = [i \in DOMAIN fdf.index |-> fdf.index[f[i]]],
                !.values = [i \in DOMAIN fdf.values |-> fdf.values[f[i]]]]

\* C12: the array evaluate hands to wrmsse has one row per id of the sales
\* table, in table order: the forecast's row of that id, or zeros when the
\* forecast has none; every row permutation of the forecast gets the same
\* score, and so does the forecast already in table order.
C12_ScoreDependsOnIdToRowMapping ==
    Evaluated =>
        LET ids == SalesIds(panel)
            inOrder == [columns |-> pivot.columns, index |-> ids, values |-> forecast_array]
        IN /\ Len(forecast_array) = Len(ids)
           /\ \A i \in DOMAIN ids :
                 forecast_array[i] =
                    IF ids[i] \in Range(pivot.index)
                    THEN pivot.values[CHOOSE q \in DOMAIN pivot.index :
                                         pivot.index[q] = ids[i]]
                    ELSE [j \in DOMAIN pivot.columns |-> Num(0)]
           /\ \A f \in Perms(Len(pivot.index)) :
                 wrmsse(EvalArray(PermuteRows(pivot, f), ids)) = score
           /\ wrmsse(EvalArray(inOrder, ids)) = score

\* a forecast in another order than the sales table, lacking one of its ids,
\* with a positive forecast for another
C12_Witness ==
    /\ Evaluated
    /\ pivot.index # SalesIds(panel)
    /\ \E id \in Range(SalesIds(panel)) : id \notin Range(pivot.index)
    /\ \E i \in DOMAIN forecast_array : \E j \in DOMAIN forecast_array[i] :
          forecast_array[i][j][1] > 0
    /\ score[1] > 0

PanelDates == {panel.rows[i].k[cDate] : i \in DOMAIN panel.rows}

\* C13: when the sales table covers at least history_days + test_horizon
\* days, the dates of the panel load_data returns are exactly its last
\* history_days + test_horizon days, and the final filter keeps that window.
C13_WindowIsHistoryPlusHorizonDays ==
    pc = "start" /\ NumDays >= cfg.history_days + cfg.test_horizon =>
        /\ PanelDates = (NumDays - (cfg.history_days + cfg.test_horizon) + 1)..NumDays
        /\ _apply_temporal_filter(panel, cfg.history_days, cfg.test_horizon) = panel

\* C14: create_all_features leaves the panel object it is given as it was:
\* same columns, same values, same row order.
C14_InputPanelUnchanged == [][pc = "start" => panel' = panel]_vars

----------------------------------------------------------------------------
(* Properties of the serving layer. *)

\* a step in which the endpoint answers a request with a new response
Answers(endpoint) == resp' # resp /\ resp'.endpoint = endpoint

\* C15: on a loaded predictor, predict answers every requested id with a
\* list of 28 values: the stored row of a known id, zeros for an unknown one.
C15_EveryForecastHasLength28 ==
    [][ predictor.model_loaded /\ Answers("predict") =>
          /\ resp'.status = 200
          /\ \A i \in DOMAIN resp'.data :
                LET e == resp'.data[i]
                    fdf == predictor.forecasts_df[1]
                IN /\ Len(e.forecasts) = ForecastLen
                   /\ \A q \in DOMAIN fdf.index :
                         fdf.index[q] = e.item_id => e.forecasts = fdf.values[q]
                   /\ e.item_id \notin Range(fdf.index) =>
                         \A j \in DOMAIN e.forecasts : e.forecasts[j] = Num(0)
      ]_vars

\* C16: as long as no load_model call has succeeded, predict, get_model_info
\* and get_available_items raise the not-loaded error and return nothing;
\* the endpoints answer with status 500 carrying that message and leave the
\* predictor as it is (no load is attempted).
C16_NotLoadedFailsFast ==
    [][ ~predictor.model_loaded =>
          /\ \A ids \in RequestChoices :
                M5Predictor_predict(predictor, ids) =
                    [ok |-> FALSE, error |-> NotLoadedMsg, value |-> <<>>]
          /\ get_model_info(predictor) =
                [ok |-> FALSE, error |-> NotLoadedMsg, value |-> <<>>]
          /\ get_available_items(predictor) =
                [ok |-> FALSE, error |-> NotLoadedMsg, value |-> <<>>]
          /\ \A ep \in {"predict", "info", "items"} :
                Answers(ep) => /\ resp' = ServiceError(ep, NotLoadedMsg)
                               /\ predictor' = predictor
      ]_vars

\* a load has failed after reading the forecasts, and POST /predict was then
\* answered with the not-loaded service error
C16_Witness ==
    /\ ~predictor.model_loaded
    /\ predictor.forecasts_df # <<>>
    /\ resp = ServiceError("predict", NotLoadedMsg)

\* the keys get_model_info reads from the summary
ServingKeys ==
    {"wrmsse", "training_time", "history_days", "num_boost_round", "lags",
     "rolling_windows"}

\* C17: a persisted summary holds the keys the serving layer reads and the
\* feature count, and get_model_info on a predictor loaded from it has no
\* missing field.
C17_SummaryHasServingKeys ==
    /\ \A i \in DOMAIN disk.summary :
          ServingKeys \cup {"num_features"} \subseteq DOMAIN disk.summary[i]
    /\ predictor.model_loaded =>
          LET info == get_model_info(predictor).value[1]
          IN \A k \in DOMAIN info : info[k] # <<>>

----------------------------------------------------------------------------
(* The horizon-to-date mapping of predict. *)

\* the h-th smallest distinct date of the test panel
HthDate(h) == CHOOSE d \in TestDates : Cardinality({e \in TestDates : e < d}) = h - 1

\* the positions of the test rows of series id dated d
TestRowsOf(id, d) ==
    {i \in DOMAIN test_df.rows :
        test_df.rows[i].k[cId] = id /\ test_df.rows[i].k[cDate] = d}

\* the feature vector of a test row, missing values replaced by 0
FilledFeatures(i) ==
    [j \in DOMAIN FeatureNames |-> fillna0(Val(test_df.rows[i], FeatureNames[j]))]

\* C18: column Fh of the matrix predict returns holds, for every series of
\* the test panel, the clamped output of model h on the series' row dated
\* the h-th smallest test date with missing features replaced by 0; only the
\* first H dates are used, and the value is a function of that row alone,
\* whatever the row order and the rows of other dates.
C18_HorizonIsHthSmallestDate ==
    pivot # NoPivot =>
        /\ Len(pivot.columns) = cfg.num_models
        /\ \A i \in DOMAIN pivot.index : \A h \in 1..cfg.num_models :
              pivot.index[i] \in TestIds =>
                 /\ Len(pivot.values[i]) = cfg.num_models
                 /\ TestRowsOf(pivot.index[i], HthDate(h)) # {}
                 /\ \A r \in TestRowsOf(pivot.index[i], HthDate(h)) :
                       pivot.values[i][h] =
                           clip0(RawScore(models[h], FilledFeatures(r)))

\* predict returned for a test panel whose rows are not in date order and
\* that has more dates than horizons; a used row has a missing feature value
\* and a series would get another value from its row of an unused date
C18_Witness ==
    /\ pivot # NoPivot
    /\ Cardinality(TestDates) > cfg.num_models
    /\ \E i, j \in DOMAIN test_df.rows :
          i < j /\ test_df.rows[i].k[cDate] > test_df.rows[j].k[cDate]
    /\ \E id \in TestIds : \E r \in TestRowsOf(id, HthDate(1)) :
          \E j \in DOMAIN FeatureNames : IsNaN(Val(test_df.rows[r], FeatureNames[j]))
    /\ \E i \in DOMAIN pivot.index :
          \E r \in TestRowsOf(pivot.index[i], HthDate(cfg.num_models + 1)) :
             pivot.values[i][1] # clip0(RawScore(models[1], FilledFeatures(r)))

----------------------------------------------------------------------------
(* The map of horizon models over the calls of train. *)

\* the boosters a call of train with the frame df may store for horizon h
FitsOf(df, h) == lgb_train(HorizonFrame(df, FeatureNames, h))

----------------------------------------------------------------------------
(* Independence of the hierarchy levels. *)

Reverse(s) == [i \in DOMAIN s |-> s[Len(s) + 1 - i]]

\* the columns a level adds when it is computed alone on the panel
LevelColumns(l) ==
    {c \in Range(LevelStep(panel, l).df.columns) : c \notin Range(panel.columns)}

\* the lag and rolling columns named after the prefix of a level
OwnColumns(l) ==
    {LagName(l.prefix, cfg.lags[j]) : j \in DOMAIN cfg.lags}
        \cup {RollName(l.prefix, cfg.rolling_windows[j]) : j \in DOMAIN cfg.rolling_windows}

\* the panel reduced to the series id, the grouping keys of the level, the
\* date and the base sales
Stripped(l) ==
    LET keys == {cId, cDate} \cup Range(l.groupby)
    IN [columns |-> SelectIdx(panel.columns,
                        {i \in DOMAIN panel.columns : panel.columns[i] \in keys \cup {cSales}}),
        rows |-> [i \in DOMAIN panel.rows |->
                    [k |-> [c \in keys |-> panel.rows[i].k[c]],
                     f |-> [c \in {cSales} |-> panel.rows[i].f[c]]]]]

\* the level computed alone on the reduced panel gives, per (series, date),
\* the values the returned panel has in the level's own columns
SameFromStripped(l) ==
    LET alone == LevelStep(Stripped(l), l).df
    IN \A i \in DOMAIN data.rows : \A c \in OwnColumns(l) :
          LET r == data.rows[i]
          IN Val(r, c) = Val(alone.rows[PosOf(alone, r.k[cId], r.k[cDate])], c)

\* the levels computed in the reverse order give the same columns and, per
\* (series, date), the same row
SameInReverseOrder ==
    LET rev == create_all_features(panel, Reverse(cfg.hierarchical_levels))
    IN /\ rev.ok
       /\ Range(rev.df.columns) = Range(data.columns)
       /\ \A i \in DOMAIN data.rows :
             LET r == data.rows[i]
             IN rev.df.rows[PosOf(rev.df, r.k[cId], r.k[cDate])] = r

\* C20: every level reads only the base sales, its grouping keys and the
\* date and writes only its own columns P_lag_k / P_roll_w (the aggregate
\* sales_P is not merged back); the columns of different levels are disjoint
\* from each other and from the base columns, and the feature values per
\* (series, date) do not depend on the order of the levels.
C20_LevelsIndependent ==
    Featured =>
        LET lv == cfg.hierarchical_levels
        IN /\ \A i \in DOMAIN lv : LevelColumns(lv[i]) = OwnColumns(lv[i])
           /\ \A i \in DOMAIN lv : OwnColumns(lv[i]) \cap Range(panel.columns) = {}
           /\ \A i, j \in DOMAIN lv :
                 i # j => OwnColumns(lv[i]) \cap OwnColumns(lv[j]) = {}
           /\ \A i \in DOMAIN lv : SameFromStripped(lv[i])
           /\ SameInReverseOrder

----------------------------------------------------------------------------
(* Atomicity of M5Predictor.load_model. *)

\* C21: whenever model_loaded is true the forecast table and the summary of
\* the predictor are those one successful load read from the artifacts, and
\* a load_model call that fails leaves model_loaded, the forecast table and
\* the summary as they were: the predictor changes only by a successful
\* load.
C21_FailedLoadChangesNothing ==
    [][ /\ predictor'.model_loaded =>
              /\ predictor'.forecasts_df = disk'.forecasts
              /\ predictor'.summary = disk'.summary
        /\ predictor' # predictor =>
              /\ load_model(predictor, disk).ok
              /\ predictor'.model_loaded
      ]_vars

----------------------------------------------------------------------------
(* M5DataLoader.split_train_test on its own: the method applied to panels  *)
(* of few dates, with and without gaps, for every test horizon.            *)

\* the date sets of the panels handed to split_train_test
SplitDateSets == (SUBSET (1..MaxSplitDays)) \ {{}}

\* the panel of all series on the dates ds, in the row order o
SplitPanel(ds, o) ==
    LET ps == SelectIdx(PairsInOrder(o),
                        {i \in DOMAIN PairsInOrder(o) : PairsInOrder(o)[i][2] \in ds})
    IN [columns |-> BaseColumns,
        rows |-> [i \in DOMAIN ps |-> PanelRow(1, 0, ps[i][1], ps[i][2])]]

SplitInit ==
    /\ \E H \in 1..MaxH, th \in 0..MaxSplitHorizon :
          cfg = [lags |-> <<1>>, rolling_windows |-> <<>>,
                 hierarchical_levels |-> <<LvlId>>, num_models |-> H,
                 test_horizon |-> th, history_days |-> HistoryDays,
                 num_boost_round |-> NumBoostRound]
    /\ \E ds \in SplitDateSets, o \in RowOrders : data = SplitPanel(ds, o)
    /\ panel = data
    /\ canon = <<>>
    /\ train_df = EmptyFrame
    /\ test_df = EmptyFrame
    /\ models = <<>>
    /\ h_cur = 0
    /\ test_days = <<>>
    /\ pred_list = <<>>
    /\ runs = 0
    /\ pivot = [columns |-> <<>>, index |-> <<>>, values |-> <<>>]
    /\ err = ""
    /\ pc = "split"
    /\ train_calls = 0
    /\ forecast_array = <<>>
    /\ score = NaN
    /\ disk = NoArtifacts
    /\ predictor = M5Predictor_init
    /\ resp = NoResponse

\* train_df, test_df = loader.split_train_test(data)
SplitOnly ==
    /\ pc = "split"
    /\ LET sp == split_train_test(data)
       IN /\ train_df' = sp.train
          /\ test_df' = sp.test
    /\ pc' = "split_done"
    /\ UNCHANGED <<cfg, panel, data, models, h_cur, test_days, pred_list, runs,
                   canon, pivot, err, train_calls, outputs, serving>>

SplitNext == SplitOnly

SplitSpec == SplitInit /\ [][SplitNext]_vars

DataDates == {data.rows[i].k[cDate] : i \in DOMAIN data.rows}
TrainDates == {train_df.rows[i].k[cDate] : i \in DOMAIN train_df.rows}

\* the dates are consecutive days
Contiguous(ds) == \A d \in ds : (\A e \in ds : e <= d) \/ d + 1 \in ds

Min(a, b) == IF a < b THEN a ELSE b

\* every row of the panel is in exactly one of train and test, and every
\* test date is later than every train date
IsPartition ==
    /\ Len(train_df.rows) + Len(test_df.rows) = Len(data.rows)
    /\ \A i \in DOMAIN data.rows :
          (data.rows[i] \in Range(train_df.rows)) # (data.rows[i] \in Range(test_df.rows))
    /\ \A a \in TestDates : \A b \in TrainDates : a > b

\* C22 as stated: split_train_test partitions the panel with the test dates
\* after the train dates, and for a panel of contiguous daily dates the test
\* part holds exactly test_horizon distinct dates, so that predict's
\* requirement of num_models distinct test dates is met exactly when
\* num_models <= test_horizon.
C22_TestHoldsHorizonDates ==
    pc = "split_done" =>
        /\ IsPartition
        /\ Contiguous(DataDates) =>
              /\ Cardinality(TestDates) = cfg.test_horizon
              /\ EnoughDays(SortedDates(test_df), cfg.num_models)
                    <=> cfg.num_models <= cfg.test_horizon

\* C22 amended: split_train_test partitions the panel with the test dates
\* after the train dates; the test part holds the dates later than the last
\* date minus test_horizon, which for a panel of contiguous daily dates are
\* the smaller of test_horizon and the number of dates of the panel, so that
\* predict's requirement is met exactly when num_models is at most both.
C22_TestHoldsAtMostHorizonDates ==
    pc = "split_done" =>
        /\ IsPartition
        /\ TestDates = {d \in DataDates : d > MaxDate(data) - cfg.test_horizon}
        /\ Contiguous(DataDates) =>
              /\ Cardinality(TestDates) =
                    Min(cfg.test_horizon, Cardinality(DataDates))
              /\ EnoughDays(SortedDates(test_df), cfg.num_models)
                    <=> cfg.num_models <= Min(cfg.test_horizon, Cardinality(DataDates))

\* a panel of one date was split with a test horizon of 2: every row is in
\* the test part, and predict's requirement fails for num_models = 2
C22_Witness ==
    /\ pc = "split_done"
    /\ Cardinality(DataDates) = 1
    /\ cfg.test_horizon = 2
    /\ cfg.num_models = 2
    /\ train_df.rows = <<>>
    /\ test_df.rows = data.rows

====
